---- MODULE Spec2Model ----
(***************************************************************************)
(* A model of src/src/split.rs: Splittable<R, W>, RHalf<R, W> and          *)
(* WHalf<R, W>.  A Splittable owns a read part r and a write part w;       *)
(* split() moves them into two halves that share one Arc<u8> token,        *)
(* is_pair_of compares the tokens by allocation (Arc::ptr_eq) and unsplit  *)
(* rebuilds the Splittable from a matching pair or panics.                 *)
(*                                                                         *)
(* Objects live in numbered slots (the caller's bindings).  The heap maps  *)
(* addresses to Arc allocations; Arc::new may return any free address, so  *)
(* the address of a freed token can be handed out again.                   *)
(* The caller's bindings come in groups, as the s1, r1, w1 and s2, r2, w2   *)
(* of the repository's test: group p holds a Splittable sp[p], or the      *)
(* halves rhs[p] and whs[p] that sp[p].split() returned.  A group is taken *)
(* again only once all three are gone, so two live halves are in the same  *)
(* group exactly when one split() call made both.  No operation of the     *)
(* program reads the group number.                                         *)
(***************************************************************************)
EXTENDS Integers, FiniteSets, Sequences, TLC

\* ------------------------------------------------------------------ bounds
NPair == 2          \* groups of bindings (s, r, w)
NAddr == 2          \* heap addresses an Arc<u8> can be allocated at

Pairs == 1..NPair
Addr == 1..NAddr
RVals == {"r1", "r2"}       \* values of the type parameter R
WVals == {"w1", "w2"}       \* values of the type parameter W
None == [none |-> TRUE]     \* an empty slot (a moved-from or dropped binding)

VARIABLES
    sp,       \* sp[p]  : the Splittable of group p, or None
    rhs,      \* rhs[p] : the RHalf of group p, or None
    whs,      \* whs[p] : the WHalf of group p, or None
    tok,      \* tok[a] : the Arc<u8> allocation at address a
    ret,      \* the last operation and what it returned
    loc,      \* loc[c] : what execution context c is in the middle of
    fault     \* "none", or the memory error that happened on a token

cvars == <<loc, fault>>
vars == <<sp, rhs, whs, tok, ret, loc, fault>>

\* ------------------------------------------------------------- Arc<u8>
\* An address that never held an allocation.  The field used is history:
\* TRUE from the first allocation at the address on.
FreshCell == [strong |-> 0, alloc |-> FALSE, val |-> 0, used |-> FALSE]

\* An address whose allocation was freed.
FreeCell == [strong |-> 0, alloc |-> FALSE, val |-> 0, used |-> TRUE]

FreeAddr(h) == {a \in Addr : ~h[a].alloc}

\* Arc::new(0) at the address a the allocator returned.
Arc_new(h, a) ==
    [h EXCEPT ![a] = [strong |-> 1, alloc |-> TRUE, val |-> 0, used |-> TRUE]]

\* Arc::clone: one more strong reference to the same allocation.
Arc_clone(h, a) == [h EXCEPT ![a].strong = @ + 1]

\* The atomic fetch_sub(1) of Arc's drop.
Arc_fetch_sub(h, a) == [h EXCEPT ![a].strong = @ - 1]

\* Arc's drop_slow: the allocation is freed.
Arc_drop_slow(h, a) == [h EXCEPT ![a] = FreeCell]

\* A faulty test: every holder takes itself for the last one.
Arc_is_last_always(old) == old >= 1

\* Is the holder that saw `old` from fetch_sub the last one?
Arc_is_last(old) == old = 1

\* A faulty drop: the allocation is freed with the first handle.
Arc_drop_frees(h, a) == Arc_drop_slow(h, a)

\* Dropping one Arc<u8> handle.
Arc_drop(h, a) ==
    LET old == h[a].strong
        h1 == Arc_fetch_sub(h, a)
    IN IF Arc_is_last(old) THEN Arc_drop_slow(h1, a) ELSE h1

Arc_ptr_eq(k1, k2) == k1 = k2

\* ------------------------------------------------------------ the types
Splittable_new(r, w) == [r |-> r, w |-> w]

RHalf_new(r, k) == [k |-> k, r |-> r]

WHalf_new(w, k) == [k |-> k, w |-> w]

\* A faulty split: the write half gets a token of its own, at another
\* address.
Splittable_split_two_keys(self, h, a) ==
    LET b == CHOOSE x \in Addr : x # a /\ (FreeAddr(h) \ {a} # {} => ~h[x].alloc)
        h1 == Arc_new(Arc_new(h, a), b)
    IN [rh |-> RHalf_new(self.r, a),
        wh |-> WHalf_new(self.w, b),
        heap |-> h1]

\* A faulty split: the token is handed to both halves without a clone, its
\* count stays 1.
Splittable_split_noclone(self, h, a) ==
    LET h1 == Arc_new(h, a)
    IN [rh |-> RHalf_new(self.r, a),
        wh |-> WHalf_new(self.w, a),
        heap |-> h1]

\* split(self): key = Arc::new(0) at address a; the halves get key.clone()
\* and key.
Splittable_split(self, h, a) ==
    LET h1 == Arc_new(h, a)
        h2 == Arc_clone(h1, a)
    IN [rh |-> RHalf_new(self.r, a),
        wh |-> WHalf_new(self.w, a),
        heap |-> h2]

Splittable_get_r(self) == [field |-> "r", val |-> self.r]
Splittable_get_w(self) == [field |-> "w", val |-> self.w]
Splittable_get_r_mut(self) == [field |-> "r", val |-> self.r]
\* A faulty get_w_mut: it borrows the read part.
Splittable_get_w_mut_wrong(self) == [field |-> "r", val |-> self.r]
Splittable_get_w_mut(self) == [field |-> "w", val |-> self.w]

\* A faulty is_pair_of: the tokens are compared by value (*k == *k).
RHalf_is_pair_of_by_value(self, w) == tok[self.k].val = tok[w.k].val

RHalf_is_pair_of(self, w) == Arc_ptr_eq(self.k, w.k)

\* A faulty is_pair_of of the write half: its own comparison, by value.
WHalf_is_pair_of_by_value(self, r) == tok[self.k].val = tok[r.k].val

WHalf_is_pair_of(self, r) == RHalf_is_pair_of(r, self)

\* A faulty unsplit: no pairing check.
RHalf_unsplit_nocheck(self, w) == [out |-> "ok", s |-> Splittable_new(self.r, w.w)]

\* A faulty unsplit: the parts are put back in the wrong places.
RHalf_unsplit_swapped(self, w) ==
    IF ~RHalf_is_pair_of(self, w)
    THEN [out |-> "panic", s |-> None]
    ELSE [out |-> "ok", s |-> Splittable_new(w.w, self.r)]

\* unsplit: "panic" or the rebuilt Splittable.
RHalf_unsplit(self, w) ==
    IF ~RHalf_is_pair_of(self, w)
    THEN [out |-> "panic", s |-> None]
    ELSE [out |-> "ok", s |-> Splittable_new(self.r, w.w)]

\* A faulty unsplit of the write half: it rebuilds the Splittable itself.
WHalf_unsplit_nocheck(self, r) == [out |-> "ok", s |-> Splittable_new(r.r, self.w)]

WHalf_unsplit(self, r) == RHalf_unsplit(r, self)

RHalf_deref(self) == [field |-> "r", val |-> self.r]
RHalf_deref_mut(self) == [field |-> "r", val |-> self.r]
WHalf_deref(self) == [field |-> "w", val |-> self.w]
WHalf_deref_mut(self) == [field |-> "w", val |-> self.w]

\* ------------------------------------------------------------- helpers
LiveS == {p \in Pairs : sp[p] # None}
LiveR == {p \in Pairs : rhs[p] # None}
LiveW == {q \in Pairs : whs[q] # None}
FreeP == Pairs \ (LiveS \cup LiveR \cup LiveW)
Min(S) == CHOOSE x \in S : \A y \in S : x <= y
BoolStr(b) == IF b THEN "true" ELSE "false"

\* The last operation and what it gave back: the operation, its outcome,
\* and the bindings it was applied to (0: none): s a Splittable, p a read
\* half, q a write half.  The outcome of a borrow is the field borrowed; of
\* split, whether the allocator handed out an address for the first time
\* ("fresh") or one that held a token before ("reused").  obj is the
\* pair of arguments of new, the Splittable that split consumed or that
\* unsplit returned, or the value seen through a borrow.
Ret(op, out, s, p, q, obj) ==
    [op |-> op, out |-> out, s |-> s, p |-> p, q |-> q, obj |-> obj]

\* The two execution contexts the halves are handed to: every read half to
\* "reader", every write half to "writer".
Ctx == {"reader", "writer"}
Idle == [pc |-> "idle", p |-> 0, old |-> 0, out |-> "-"]

MutOps == {"get_r_mut", "get_w_mut", "r_deref_mut", "w_deref_mut"}
UnsplitOps == {"r_unsplit", "w_unsplit"}

\* ------------------------------------------------------------------ Init
Init ==
    /\ sp = [p \in Pairs |-> None]
    /\ rhs = [p \in Pairs |-> None]
    /\ whs = [p \in Pairs |-> None]
    /\ tok = [a \in Addr |-> FreshCell]
    /\ ret = Ret("init", "-", 0, 0, 0, None)
    /\ loc = [c \in Ctx |-> Idle]
    /\ fault = "none"

\* --------------------------------------------------------------- actions
\* let s = Splittable::new(r, w);
New(r, w) ==
    /\ FreeP # {}
    /\ LET s == Min(FreeP) IN
        /\ sp' = [sp EXCEPT ![s] = Splittable_new(r, w)]
        /\ ret' = Ret("new", "ok", s, 0, 0, [r |-> r, w |-> w])
    /\ UNCHANGED <<rhs, whs, tok, cvars>>

\* let (r, w) = sp[s].split();   the allocator returns the free address a.
Split(s, a) ==
    /\ s \in LiveS
    /\ a \in FreeAddr(tok)
    /\ LET res == Splittable_split(sp[s], tok, a) IN
        /\ sp' = [sp EXCEPT ![s] = None]
        /\ rhs' = [rhs EXCEPT ![s] = res.rh]
        /\ whs' = [whs EXCEPT ![s] = res.wh]
        /\ tok' = res.heap
        /\ ret' = Ret("split", IF tok[a].used THEN "reused" ELSE "fresh",
                      s, s, s, sp[s])
    /\ UNCHANGED cvars

\* A borrow accessor of sp[s]: which field the returned reference points
\* at.  The object is only borrowed.
Access(op, s, ref) ==
    /\ ret' = Ret(op, ref.field, s, 0, 0, ref.val)
    /\ UNCHANGED <<sp, rhs, whs, tok, cvars>>

GetR(s) == s \in LiveS /\ Access("get_r", s, Splittable_get_r(sp[s]))
GetW(s) == s \in LiveS /\ Access("get_w", s, Splittable_get_w(sp[s]))
GetRMut(s) == s \in LiveS /\ Access("get_r_mut", s, Splittable_get_r_mut(sp[s]))
GetWMut(s) == s \in LiveS /\ Access("get_w_mut", s, Splittable_get_w_mut(sp[s]))

\* Deref / DerefMut of a half.
AccessHalf(op, p, q, ref) ==
    /\ ret' = Ret(op, ref.field, 0, p, q, ref.val)
    /\ UNCHANGED <<sp, rhs, whs, tok, cvars>>

DerefR(p) == p \in LiveR /\ AccessHalf("r_deref", p, 0, RHalf_deref(rhs[p]))
DerefMutR(p) == p \in LiveR /\ AccessHalf("r_deref_mut", p, 0, RHalf_deref_mut(rhs[p]))
DerefW(q) == q \in LiveW /\ AccessHalf("w_deref", 0, q, WHalf_deref(whs[q]))
DerefMutW(q) == q \in LiveW /\ AccessHalf("w_deref_mut", 0, q, WHalf_deref_mut(whs[q]))

\* The caller writes v through the &mut it has just obtained.
Store(v) ==
    /\ ret.op \in MutOps
    /\ v \in (IF ret.out = "r" THEN RVals ELSE WVals)
    /\ sp' = IF ret.s = 0 THEN sp
             ELSE IF ret.out = "r" THEN [sp EXCEPT ![ret.s].r = v]
             ELSE [sp EXCEPT ![ret.s].w = v]
    /\ rhs' = IF ret.p # 0 /\ ret.out = "r" THEN [rhs EXCEPT ![ret.p].r = v] ELSE rhs
    /\ whs' = IF ret.q # 0 /\ ret.out = "w" THEN [whs EXCEPT ![ret.q].w = v] ELSE whs
    /\ ret' = Ret("store", ret.out, ret.s, ret.p, ret.q, None)
    /\ UNCHANGED <<tok, cvars>>

\* rhs[p].is_pair_of(&whs[q])
IsPairOfR(p, q) ==
    /\ p \in LiveR /\ q \in LiveW
    /\ ret' = Ret("r_is_pair_of", BoolStr(RHalf_is_pair_of(rhs[p], whs[q])),
                  0, p, q, None)
    /\ UNCHANGED <<sp, rhs, whs, tok, cvars>>

\* whs[q].is_pair_of(&rhs[p])
IsPairOfW(q, p) ==
    /\ p \in LiveR /\ q \in LiveW
    /\ ret' = Ret("w_is_pair_of", BoolStr(WHalf_is_pair_of(whs[q], rhs[p])),
                  0, p, q, None)
    /\ UNCHANGED <<sp, rhs, whs, tok, cvars>>

\* The groups that are empty once rhs[p] and whs[q] are consumed: where the
\* caller can bind what unsplit returns.
UnsplitTargets(p, q) ==
    {g \in {p, q} : /\ sp[g] = None
                    /\ (g = p \/ rhs[g] = None)
                    /\ (g = q \/ whs[g] = None)}

\* Both halves are consumed: on success their parts move into the new
\* Splittable and the two token handles are dropped; on panic the unwinding
\* drops both halves whole, and the caller that catches the panic (or
\* another thread) goes on.  In a build that aborts on panic the behaviour
\* simply ends at the panic.
Unsplit(op, p, q, res) ==
    /\ rhs' = [rhs EXCEPT ![p] = None]
    /\ whs' = [whs EXCEPT ![q] = None]
    /\ tok' = Arc_drop(Arc_drop(tok, whs[q].k), rhs[p].k)
    /\ IF res.out = "ok"
       THEN /\ UnsplitTargets(p, q) # {}
            /\ LET s == Min(UnsplitTargets(p, q)) IN
                /\ sp' = [sp EXCEPT ![s] = res.s]
                /\ ret' = Ret(op, "ok", s, p, q, res.s)
       ELSE /\ sp' = sp
            /\ ret' = Ret(op, "panic", 0, p, q, None)
    /\ UNCHANGED cvars

\* rhs[p].unsplit(whs[q])
UnsplitR(p, q) ==
    /\ p \in LiveR /\ q \in LiveW
    /\ Unsplit("r_unsplit", p, q, RHalf_unsplit(rhs[p], whs[q]))

\* whs[q].unsplit(rhs[p])
UnsplitW(q, p) ==
    /\ p \in LiveR /\ q \in LiveW
    /\ Unsplit("w_unsplit", p, q, WHalf_unsplit(whs[q], rhs[p]))

\* drop(sp[s]): both parts go.
DropS(s) ==
    /\ s \in LiveS
    /\ sp' = [sp EXCEPT ![s] = None]
    /\ ret' = Ret("s_drop", "ok", s, 0, 0, None)
    /\ UNCHANGED <<rhs, whs, tok, cvars>>

\* drop(rhs[p]): the token handle k, then the part r.
DropR(p) ==
    /\ p \in LiveR
    /\ rhs' = [rhs EXCEPT ![p] = None]
    /\ tok' = Arc_drop(tok, rhs[p].k)
    /\ ret' = Ret("r_drop", "ok", 0, p, 0, None)
    /\ UNCHANGED <<sp, whs, cvars>>

\* drop(whs[q]): the token handle k, then the part w.
DropW(q) ==
    /\ q \in LiveW
    /\ whs' = [whs EXCEPT ![q] = None]
    /\ tok' = Arc_drop(tok, whs[q].k)
    /\ ret' = Ret("w_drop", "ok", 0, 0, q, None)
    /\ UNCHANGED <<sp, rhs, cvars>>

\* The life cycle of the objects: new, split, is_pair_of, unsplit and drop,
\* in any order.
Next ==
    \/ \E r \in RVals, w \in WVals : New(r, w)
    \/ \E s \in Pairs, a \in Addr : Split(s, a)
    \/ \E p \in Pairs, q \in Pairs : IsPairOfR(p, q)
    \/ \E p \in Pairs, q \in Pairs : IsPairOfW(q, p)
    \/ \E p \in Pairs, q \in Pairs : UnsplitR(p, q)
    \/ \E p \in Pairs, q \in Pairs : UnsplitW(q, p)
    \/ \E s \in Pairs : DropS(s)
    \/ \E p \in Pairs : DropR(p)
    \/ \E q \in Pairs : DropW(q)

Spec == Init /\ [][Next]_vars

\* The borrows: the accessors of a Splittable and the Deref / DerefMut of
\* the halves, and writes through them, between new, split and unsplit.
NextAcc ==
    \/ \E r \in RVals, w \in WVals : New(r, w)
    \/ \E s \in Pairs : GetR(s)
    \/ \E s \in Pairs : GetW(s)
    \/ \E s \in Pairs : GetRMut(s)
    \/ \E s \in Pairs : GetWMut(s)
    \/ \E p \in Pairs : DerefR(p)
    \/ \E p \in Pairs : DerefMutR(p)
    \/ \E q \in Pairs : DerefW(q)
    \/ \E q \in Pairs : DerefMutW(q)
    \/ \E v \in RVals \cup WVals : Store(v)
    \/ \E s \in Pairs, a \in Addr : Split(s, a)
    \/ \E p \in Pairs, q \in Pairs : UnsplitR(p, q)
    \/ \E p \in Pairs, q \in Pairs : UnsplitW(q, p)
    \/ \E s \in Pairs : DropS(s)

SpecAcc == Init /\ [][NextAcc]_vars

\* ------------------------------------------- the halves in two contexts
\* After split() the read half belongs to context "reader" and the write
\* half to context "writer".  Each context runs its operations one after
\* the other; the steps of the two interleave.  Dropping a half takes three
\* steps: the atomic fetch_sub on the token's count, the free of the token
\* by the holder that saw the count 1, and the release of the owned part.
HalfOf(c, p) == IF c = "reader" THEN rhs[p] ELSE whs[p]
Other(c) == IF c = "reader" THEN "writer" ELSE "reader"
Busy(c, p) == loc[c].p = p /\ loc[c].pc # "idle"

\* c takes &mut of the part of its half p.
CDerefMut(c, p) ==
    /\ loc[c].pc = "idle"
    /\ HalfOf(c, p) # None
    /\ loc' = [loc EXCEPT ![c] =
                 [pc |-> "mut", p |-> p, old |-> 0,
                  out |-> IF c = "reader" THEN RHalf_deref_mut(rhs[p]).field
                          ELSE WHalf_deref_mut(whs[p]).field]]
    /\ UNCHANGED <<sp, rhs, whs, tok, ret, fault>>

\* c writes v through that &mut.
CStore(c, v) ==
    /\ loc[c].pc = "mut"
    /\ v \in (IF loc[c].out = "r" THEN RVals ELSE WVals)
    /\ rhs' = IF c = "reader" /\ loc[c].out = "r"
              THEN [rhs EXCEPT ![loc[c].p].r = v] ELSE rhs
    /\ whs' = IF c = "writer" /\ loc[c].out = "w"
              THEN [whs EXCEPT ![loc[c].p].w = v] ELSE whs
    /\ loc' = [loc EXCEPT ![c] = Idle]
    /\ UNCHANGED <<sp, tok, ret, fault>>

\* c calls is_pair_of on its half p against a shared borrow of the other
\* context's half q, which that context is not writing or dropping.
CIsPairOf(c, p, q) ==
    /\ loc[c].pc = "idle"
    /\ HalfOf(c, p) # None
    /\ HalfOf(Other(c), q) # None
    /\ ~Busy(Other(c), q)
    /\ loc' = [loc EXCEPT ![c] =
                 [pc |-> "idle", p |-> 0, old |-> 0,
                  out |-> BoolStr(IF c = "reader"
                                  THEN RHalf_is_pair_of(rhs[p], whs[q])
                                  ELSE WHalf_is_pair_of(whs[p], rhs[q]))]]
    /\ UNCHANGED <<sp, rhs, whs, tok, ret, fault>>

\* drop(half p), first step: fetch_sub(1) on the count of its token.
CDropBegin(c, p) ==
    /\ loc[c].pc = "idle"
    /\ HalfOf(c, p) # None
    /\ LET k == HalfOf(c, p).k IN
        /\ tok' = Arc_fetch_sub(tok, k)
        /\ loc' = [loc EXCEPT ![c] =
                     [pc |-> "dec", p |-> p, old |-> tok[k].strong, out |-> "-"]]
        /\ fault' = IF tok[k].alloc THEN fault ELSE "use_after_free"
    /\ UNCHANGED <<sp, rhs, whs, ret>>

\* drop(half p), second step: the holder that saw the last count frees.
CDropToken(c) ==
    /\ loc[c].pc = "dec"
    /\ LET k == HalfOf(c, loc[c].p).k IN
        IF Arc_is_last(loc[c].old)
        THEN /\ tok' = Arc_drop_slow(tok, k)
             /\ fault' = IF tok[k].alloc THEN fault ELSE "double_free"
        ELSE UNCHANGED <<tok, fault>>
    /\ loc' = [loc EXCEPT ![c].pc = "part"]
    /\ UNCHANGED <<sp, rhs, whs, ret>>

\* drop(half p), last step: the owned part is released, the half is gone.
CDropPart(c) ==
    /\ loc[c].pc = "part"
    /\ rhs' = IF c = "reader" THEN [rhs EXCEPT ![loc[c].p] = None] ELSE rhs
    /\ whs' = IF c = "writer" THEN [whs EXCEPT ![loc[c].p] = None] ELSE whs
    /\ loc' = [loc EXCEPT ![c] = Idle]
    /\ UNCHANGED <<sp, tok, ret, fault>>

\* The main context has built and split the Splittables of groups 1..n,
\* the token of group p at address p.
RECURSIVE SplitAll(_, _, _)
SplitAll(n, rv, wv) ==
    IF n = 0
    THEN [rhs |-> [p \in Pairs |-> None],
          whs |-> [p \in Pairs |-> None],
          heap |-> [a \in Addr |-> FreshCell]]
    ELSE LET prev == SplitAll(n - 1, rv, wv)
             res == Splittable_split(Splittable_new(rv[n], wv[n]), prev.heap, n)
         IN [rhs |-> [prev.rhs EXCEPT ![n] = res.rh],
             whs |-> [prev.whs EXCEPT ![n] = res.wh],
             heap |-> res.heap]

InitC ==
    \E rv \in [Pairs -> RVals], wv \in [Pairs -> WVals] :
        LET n == Min({NPair, NAddr})
            st == SplitAll(n, rv, wv)
        IN /\ sp = [p \in Pairs |-> None]
           /\ rhs = st.rhs
           /\ whs = st.whs
           /\ tok = st.heap
           /\ ret = Ret("init", "-", 0, 0, 0, None)
           /\ loc = [c \in Ctx |-> Idle]
           /\ fault = "none"

\* The two contexts use and drop their halves.
NextC ==
    \/ \E c \in Ctx, p \in Pairs : CDerefMut(c, p)
    \/ \E c \in Ctx, v \in RVals \cup WVals : CStore(c, v)
    \/ \E c \in Ctx, p \in Pairs, q \in Pairs : CIsPairOf(c, p, q)
    \/ \E c \in Ctx, p \in Pairs : CDropBegin(c, p)
    \/ \E c \in Ctx : CDropToken(c)
    \/ \E c \in Ctx : CDropPart(c)

SpecC == InitC /\ [][NextC]_vars

\* ================================================================ claims
IsPairOps == {"r_is_pair_of", "w_is_pair_of"}

\* C1: the two halves one split() call returned are a pair, from either
\* side, in every state in which both are alive, whatever was done to other
\* objects in between; and every is_pair_of call on them returned true.
C1_SplitHalvesArePair ==
    /\ \A p \in LiveR \cap LiveW :
          /\ RHalf_is_pair_of(rhs[p], whs[p])
          /\ WHalf_is_pair_of(whs[p], rhs[p])
    /\ (ret.op \in IsPairOps /\ ret.p = ret.q) => ret.out = "true"

\* Both groups hold live halves, and the last call was is_pair_of on a pair.
C1_Witness ==
    /\ LiveR = Pairs /\ LiveW = Pairs
    /\ ret.op = "w_is_pair_of" /\ ret.p = ret.q /\ ret.out = "true"
    /\ \E p \in Pairs : rhs[p].r = "r2" /\ whs[p].w = "w1"

\* C2: a live read half and a live write half of two different split()
\* calls are never a pair, from either side, and every is_pair_of call on
\* such halves returned false.
C2_OtherSplitNotPair ==
    /\ \A p \in LiveR, q \in LiveW :
          p # q => /\ ~RHalf_is_pair_of(rhs[p], whs[q])
                   /\ ~WHalf_is_pair_of(whs[q], rhs[p])
    /\ (ret.op \in IsPairOps /\ ret.p # ret.q) => ret.out = "false"

\* A split has just been given the address of a token freed earlier, while
\* the halves of another split of a Splittable with equal contents are
\* alive; both tokens hold the value 0.
C2_Witness ==
    /\ ret.op = "split" /\ ret.out = "reused"
    /\ \E q \in Pairs \ {ret.p} :
          /\ q \in LiveR /\ q \in LiveW
          /\ rhs[q].r = rhs[ret.p].r /\ whs[q].w = whs[ret.p].w
          /\ tok[rhs[q].k].val = tok[rhs[ret.p].k].val

\* C5: is_pair_of gives the same answer from either side, for every live
\* read half and write half, matched or not.
C5_IsPairOfSymmetric ==
    \A p \in LiveR, q \in LiveW :
        RHalf_is_pair_of(rhs[p], whs[q]) = WHalf_is_pair_of(whs[q], rhs[p])

\* The write half of one split was asked about the read half of another.
C5_Witness ==
    /\ ret.op = "w_is_pair_of" /\ ret.p # ret.q /\ ret.out = "false"
    /\ ret.p \in LiveW /\ ret.q \in LiveR

\* C3: unsplit returns a Splittable exactly when its two halves came from
\* the same split() call.  With halves of different splits it panics and
\* no Splittable appears; with a matching pair it does not panic and binds
\* a Splittable where there was none.
C3_UnsplitIffPair ==
    [][ret'.op \in UnsplitOps =>
          /\ ret'.out \in {"ok", "panic"}
          /\ (ret'.out = "ok") <=> (ret'.p = ret'.q)
          /\ ret'.out = "panic" => sp' = sp /\ ret'.s = 0
          /\ ret'.out = "ok" =>
                /\ sp[ret'.s] = None /\ sp'[ret'.s] # None
                /\ \A s \in Pairs \ {ret'.s} : sp'[s] = sp[s]]_vars

\* r1.unsplit(w2) has panicked while the siblings w1 and r2 were alive.
C3_Witness ==
    /\ ret.op = "r_unsplit" /\ ret.out = "panic" /\ ret.p # ret.q
    /\ ret.p \in LiveW /\ ret.q \in LiveR

\* C4: unsplit right after split, on the two halves split returned, gives
\* back a Splittable with the same read part and the same write part, and
\* the token of that split is freed; split of that Splittable right after
\* gives halves with these same parts and a token allocated by this split,
\* which no other half holds.
C4_RoundTrip ==
    [][/\ (/\ ret.op = "split" /\ ret'.op \in UnsplitOps
           /\ ret'.p = ret.p /\ ret'.q = ret.q) =>
              /\ ret'.out = "ok"
              /\ sp'[ret'.s] = ret.obj
              /\ ~tok'[rhs[ret.p].k].alloc
       /\ (/\ ret.op \in UnsplitOps /\ ret.out = "ok"
           /\ ret'.op = "split" /\ ret'.s = ret.s) =>
              LET rh == rhs'[ret'.p]
                  wh == whs'[ret'.q]
              IN /\ rh.r = ret.obj.r /\ wh.w = ret.obj.w
                 /\ rh.k = wh.k
                 /\ ~tok[rh.k].alloc /\ tok'[rh.k].alloc
                 /\ \A p \in LiveR : rhs[p].k # rh.k
                 /\ \A q \in LiveW : whs[q].k # rh.k]_vars

\* A Splittable holding r2 and w1 has come back from split and unsplit,
\* while the halves of another split are alive.
C4_Witness ==
    /\ ret.op = "w_unsplit" /\ ret.out = "ok"
    /\ ret.obj = [r |-> "r2", w |-> "w1"]
    /\ sp[ret.s] = ret.obj
    /\ \E p \in Pairs \ {ret.s} : p \in LiveR /\ p \in LiveW

\* C6: whs[q].unsplit(rhs[p]) ends as rhs[p].unsplit(whs[q]) does from the
\* same state: the panic, or the same Splittable.
C6_WUnsplitAsRUnsplit ==
    [][ret'.op = "w_unsplit" =>
          LET res == RHalf_unsplit(rhs[ret'.p], whs[ret'.q])
          IN /\ ret'.out = res.out
             /\ ret'.obj = res.s
             /\ res.out = "ok" => sp'[ret'.s] = res.s
             /\ res.out = "panic" => sp' = sp]_vars

\* w2.unsplit(r1) has panicked.
C6_Witness ==
    /\ ret.op = "w_unsplit" /\ ret.out = "panic" /\ ret.p # ret.q

\* C7: new(r, w) puts r in the read slot and w in the write slot; get_r and
\* get_r_mut borrow the read part, get_w and get_w_mut the write part, and
\* the call changes nothing; a write through get_r_mut changes the read part
\* of that object only, one through get_w_mut its write part only; split
\* moves the read part into the read half and the write part into the write
\* half, unchanged.
C7_AccessorsAndSplitKeepParts ==
    [][/\ ret'.op = "new" =>
             /\ sp'[ret'.s].r = ret'.obj.r /\ sp'[ret'.s].w = ret'.obj.w
             /\ \A s \in Pairs \ {ret'.s} : sp'[s] = sp[s]
       /\ ret'.op \in {"get_r", "get_r_mut"} =>
             /\ ret'.out = "r" /\ ret'.obj = sp[ret'.s].r
             /\ <<sp, rhs, whs, tok>>' = <<sp, rhs, whs, tok>>
       /\ ret'.op \in {"get_w", "get_w_mut"} =>
             /\ ret'.out = "w" /\ ret'.obj = sp[ret'.s].w
             /\ <<sp, rhs, whs, tok>>' = <<sp, rhs, whs, tok>>
       /\ (ret.op = "get_r_mut" /\ ret'.op = "store") =>
             /\ sp' = [sp EXCEPT ![ret.s].r = sp'[ret.s].r]
             /\ sp'[ret.s].r \in RVals
       /\ (ret.op = "get_w_mut" /\ ret'.op = "store") =>
             /\ sp' = [sp EXCEPT ![ret.s].w = sp'[ret.s].w]
             /\ sp'[ret.s].w \in WVals
       /\ ret'.op = "split" =>
             /\ rhs'[ret'.p].r = sp[ret'.s].r
             /\ whs'[ret'.q].w = sp[ret'.s].w
             /\ sp'[ret'.s] = None]_vars

\* A Splittable whose write part was set to w2 through get_w_mut has been
\* split: the read half holds r1, the write half w2.
C7_Witness ==
    /\ ret.op = "split"
    /\ ret.obj = [r |-> "r1", w |-> "w2"]
    /\ rhs[ret.p].r = "r1" /\ whs[ret.q].w = "w2"
    /\ \E s \in LiveS : sp[s] = [r |-> "r2", w |-> "w1"]

\* The holders of the token at address a.
RHolders(a) == {p \in LiveR : rhs[p].k = a}
WHolders(a) == {q \in LiveW : whs[q].k = a}
Allocated(h) == {a \in Addr : h[a].alloc}

\* C8: a token is held by at most one read half and at most one write half,
\* both from the same split() call, and its count is the number of these
\* holders; a split() call allocates exactly one token, held by its two
\* halves; no step raises the count of a token that exists.
C8_TokenSharing ==
    /\ [](\A a \in Addr :
            /\ Cardinality(RHolders(a)) <= 1
            /\ Cardinality(WHolders(a)) <= 1
            /\ (RHolders(a) # {} /\ WHolders(a) # {}) => RHolders(a) = WHolders(a)
            /\ tok[a].strong = Cardinality(RHolders(a)) + Cardinality(WHolders(a)))
    /\ [][/\ ret'.op = "split" =>
                /\ Cardinality(Allocated(tok') \ Allocated(tok)) = 1
                /\ Allocated(tok) \subseteq Allocated(tok')
                /\ rhs'[ret'.p].k = whs'[ret'.q].k
                /\ rhs'[ret'.p].k \notin Allocated(tok)
          /\ ret'.op # "split" => Allocated(tok') \subseteq Allocated(tok)
          /\ \A a \in Allocated(tok) : tok'[a].strong <= tok[a].strong]_vars

\* One token is held by both halves of its split, another by a write half
\* alone, and is_pair_of has just been called on halves of the two splits.
C8_Witness ==
    /\ \E a \in Addr, b \in Addr :
          /\ tok[a].strong = 2 /\ RHolders(a) # {} /\ WHolders(a) # {}
          /\ tok[b].strong = 1 /\ RHolders(b) = {} /\ WHolders(b) # {}
    /\ ret.op = "r_is_pair_of" /\ ret.out = "false"

\* C9: a token is allocated exactly as long as a live half holds it.
\* Dropping a half takes that half and its share of the token and nothing
\* else: every other object is as before, the sibling's token stays
\* allocated, and the token is freed exactly when the dropped half was its
\* last holder.  A half whose sibling is gone is not a pair of any live half,
\* so no unsplit with it returns a Splittable.
C9_TokenLifetime ==
    /\ [](/\ \A a \in Addr : tok[a].alloc <=> (RHolders(a) \cup WHolders(a) # {})
          /\ \A p \in LiveR \ LiveW, q \in LiveW :
                /\ RHalf_unsplit(rhs[p], whs[q]).out = "panic"
                /\ WHalf_unsplit(whs[q], rhs[p]).out = "panic"
          /\ \A q \in LiveW \ LiveR, p \in LiveR :
                /\ RHalf_unsplit(rhs[p], whs[q]).out = "panic"
                /\ WHalf_unsplit(whs[q], rhs[p]).out = "panic")
    /\ [][/\ ret'.op = "r_drop" =>
                LET k == rhs[ret'.p].k IN
                /\ rhs' = [rhs EXCEPT ![ret'.p] = None]
                /\ whs' = whs /\ sp' = sp
                /\ \A a \in Addr \ {k} : tok'[a] = tok[a]
                /\ tok'[k].alloc <=> (WHolders(k) # {})
                /\ tok'[k].alloc => tok'[k].strong = 1
          /\ ret'.op = "w_drop" =>
                LET k == whs[ret'.q].k IN
                /\ whs' = [whs EXCEPT ![ret'.q] = None]
                /\ rhs' = rhs /\ sp' = sp
                /\ \A a \in Addr \ {k} : tok'[a] = tok[a]
                /\ tok'[k].alloc <=> (RHolders(k) # {})
                /\ tok'[k].alloc => tok'[k].strong = 1
          /\ (ret'.op \in UnsplitOps /\ ret'.out = "ok") =>
                /\ ret'.p \in LiveW /\ ret'.q \in LiveR
                /\ ~tok'[rhs[ret'.p].k].alloc]_vars

\* The read half of group 1 was dropped; its sibling write half is alive
\* with its part and its token, next to the two halves of another split.
C9_Witness ==
    /\ ret.op = "r_drop" /\ ret.p = 1
    /\ 1 \in LiveW /\ whs[1].w = "w2" /\ tok[whs[1].k].alloc
    /\ \E p \in Pairs \ {1} : p \in LiveR /\ p \in LiveW

\* The handle of context c's half p still counts in its token: the half is
\* there and its drop has not yet done the fetch_sub.
Counted(c, p) ==
    /\ HalfOf(c, p) # None
    /\ ~(loc[c].p = p /\ loc[c].pc \in {"dec", "part"})

CountedHandles(a) ==
    {cp \in Ctx \X Pairs : Counted(cp[1], cp[2]) /\ HalfOf(cp[1], cp[2]).k = a}

\* C10: with the read halves in one context and the write halves in
\* another, in every interleaving: no token is freed twice or touched after
\* its free; the count of a token is the number of handles not yet
\* decremented, so it goes 2, 1, 0; a token is freed only when no handle
\* counts any more and is allocated as long as one does; the holder whose
\* fetch_sub saw 1 finds the token still allocated; when both halves are
\* gone the token is freed; and a step of one context leaves the halves of
\* the other as they were.
C10_ConcurrentHalves ==
    /\ [](/\ fault = "none"
          /\ \A a \in Addr :
                /\ tok[a].strong = Cardinality(CountedHandles(a))
                /\ tok[a].strong \in 0..2
                /\ CountedHandles(a) # {} => tok[a].alloc
                /\ tok[a].alloc => \E c \in Ctx, p \in Pairs :
                                      HalfOf(c, p) # None /\ HalfOf(c, p).k = a
          /\ \A c \in Ctx :
                loc[c].pc = "dec" =>
                    LET k == HalfOf(c, loc[c].p).k IN
                    /\ loc[c].old \in {1, 2}
                    /\ loc[c].old > tok[k].strong
                    /\ loc[c].old = 1 => tok[k].strong = 0 /\ tok[k].alloc)
    /\ [][/\ loc'["reader"] # loc["reader"] => whs' = whs
          /\ loc'["writer"] # loc["writer"] => rhs' = rhs
          /\ \A a \in Addr : tok'[a].strong \in {tok[a].strong, tok[a].strong - 1}
          /\ \A a \in Addr : (tok[a].alloc /\ ~tok'[a].alloc) => tok[a].strong = 0]_vars

\* Both contexts are in the middle of dropping the two halves of one split:
\* both have decremented, one saw 2 and the other 1, the token is not yet
\* freed, and the parts were written to before.
C10_Witness ==
    /\ loc["reader"].pc = "dec" /\ loc["writer"].pc = "dec"
    /\ loc["reader"].p = loc["writer"].p
    /\ {loc["reader"].old, loc["writer"].old} = {1, 2}
    /\ tok[rhs[loc["reader"].p].k].alloc
    /\ tok[rhs[loc["reader"].p].k].strong = 0
    /\ \E p \in Pairs : p \in LiveR /\ p \in LiveW /\ rhs[p].r = "r2" /\ whs[p].w = "w2"

====
